---- MODULE Spec2Model ----
(***************************************************************************)
(* Model of the task scheduler (src/core/scheduler.py) and of the agent    *)
(* orchestration layer (src/agents/base.py, src/agents/registry.py) of     *)
(* the DevOps AI platform.                                                 *)
(*                                                                         *)
(* Time is a wall clock in seconds.  Strings that the code inspects        *)
(* (schedule specs) are sequences of one-character strings.  A suspension  *)
(* point of a coroutine (an await that can yield to the event loop) ends   *)
(* an action; everything between two suspension points is one action.      *)
(***************************************************************************)
EXTENDS Integers, Sequences, FiniteSets, TLC

VARIABLES
    now,          \* the wall clock (datetime.utcnow / time.time), seconds
    ticks,        \* clock advances so far (bounds the model)
    objs,         \* the ScheduledTask objects ever created, by allocation
    tasks,        \* TaskScheduler.tasks: insertion-ordered id -> object
    task_queues,  \* TaskScheduler.task_queues: priority -> FIFO of objects
    active_tasks, \* TaskScheduler.active_tasks
    running,      \* TaskScheduler.running
    workers,      \* the worker coroutines: position in _worker_loop
    agents,       \* AgentRegistry.agents: the registered names
    units,        \* the BaseAgent objects: flags and running statistics
    frames,       \* the execute_agent calls in flight: position and locals
    ea            \* the execute_all_agents call: snapshot, semaphore, results

svars == <<objs, tasks, task_queues, active_tasks, running, workers>>
avars == <<agents, units, frames, ea>>
vars == <<now, ticks, objs, tasks, task_queues, active_tasks, running, workers,
          agents, units, frames, ea>>

----------------------------------------------------------------------------
(* Bounds of the model *)

MaxTicks == 3
MaxObjs == 4
NumWorkers == 2

(* Program constants *)

LOW == 1
NORMAL == 2
HIGH == 3
CRITICAL == 4
DefaultMaxRetries == 3
RetryBackoffSeconds == 300
FallbackSeconds == 300

TaskPriority == {LOW, NORMAL, HIGH, CRITICAL}

(* Inputs *)

Str0s == <<"0", "s">>
Str300s == <<"3", "0", "0", "s">>
Str3600s == <<"3", "6", "0", "0", "s">>
Str600s == <<"6", "0", "0", "s">>
StrWeekdays == <<"x", "s">>

StrMinus600s == <<"-", "6", "0", "0", "s">>
ScheduleInputs == {Str0s, Str300s, StrWeekdays}
SignedScheduleInputs == {Str0s, StrMinus600s}
NameInputs == {"job"}
PriorityInputs == {LOW, CRITICAL}
TickSteps == {300}
Workers == 1..NumWorkers
TickTimes == {k * 300 : k \in 0..MaxTicks}

----------------------------------------------------------------------------
(* _parse_schedule *)

DigitValue(c) ==
    CASE c = "0" -> 0 [] c = "1" -> 1 [] c = "2" -> 2 [] c = "3" -> 3
      [] c = "4" -> 4 [] c = "5" -> 5 [] c = "6" -> 6 [] c = "7" -> 7
      [] c = "8" -> 8 [] c = "9" -> 9 [] OTHER -> -1

RECURSIVE DigitsToInt(_)
DigitsToInt(s) ==
    IF s = <<>> THEN 0
    ELSE 10 * DigitsToInt(SubSeq(s, 1, Len(s) - 1)) + DigitValue(s[Len(s)])

IsDigits(s) == Len(s) > 0 /\ \A i \in 1..Len(s) : DigitValue(s[i]) >= 0

(* int(text): a value, or a ValueError *)
PyInt(s) ==
    IF IsDigits(s) THEN [ok |-> TRUE, value |-> DigitsToInt(s)]
    ELSE IF Len(s) > 1 /\ s[1] = "-" /\ IsDigits(Tail(s))
         THEN [ok |-> TRUE, value |-> 0 - DigitsToInt(Tail(s))]
    ELSE IF Len(s) > 1 /\ s[1] = "+" /\ IsDigits(Tail(s))
         THEN [ok |-> TRUE, value |-> DigitsToInt(Tail(s))]
    ELSE [ok |-> FALSE, value |-> 0]

UnitSeconds(u) ==
    CASE u = "s" -> 1 [] u = "m" -> 60 [] u = "h" -> 3600 [] u = "d" -> 86400

(* _parse_schedule(schedule) evaluated at time t: the next run time, or the
   ValueError raised by int() *)
ParseSchedule(schedule, t) ==
    IF Len(schedule) > 0 /\ schedule[Len(schedule)] \in {"s", "m", "h", "d"}
    THEN LET v == PyInt(SubSeq(schedule, 1, Len(schedule) - 1))
         IN  IF v.ok
             THEN [ok |-> TRUE,
                   value |-> t + v.value * UnitSeconds(schedule[Len(schedule)])]
             ELSE [ok |-> FALSE, value |-> 0]
    ELSE [ok |-> TRUE, value |-> t + FallbackSeconds]

----------------------------------------------------------------------------
(* The job table *)

NoTime == -1

NewTask(name, func, schedule, priority, t) ==
    [name |-> name, func |-> func, schedule |-> schedule,
     priority |-> priority, status |-> "pending", created_at |-> t,
     next_run |-> ParseSchedule(schedule, t).value, last_run |-> NoTime,
     result |-> "none", error |-> "none", retry_count |-> 0,
     max_retries |-> DefaultMaxRetries]

(* task_id = f"{name}_{int(time.time())}" *)
TaskId(name, t) == <<name, t>>

HasId(tbl, id) == \E k \in 1..Len(tbl) : tbl[k].id = id

(* self.tasks[task_id] = task: a new key goes last, an existing key keeps
   its place and gets the new object *)
TablePut(tbl, id, obj) ==
    IF HasId(tbl, id)
    THEN [k \in 1..Len(tbl) |->
            IF tbl[k].id = id THEN [id |-> id, obj |-> obj] ELSE tbl[k]]
    ELSE Append(tbl, [id |-> id, obj |-> obj])

TableGet(tbl, id) == (CHOOSE k \in 1..Len(tbl) : tbl[k].id = id)

(* schedule_task: one call, on the state (os, tbl) *)
ScheduleInto(os, tbl, name, func, schedule, priority, t) ==
    [objs |-> Append(os, NewTask(name, func, schedule, priority, t)),
     tasks |-> TablePut(tbl, TaskId(name, t), Len(os) + 1)]

ScheduleTask(name, schedule, priority) ==
    /\ Len(objs) < MaxObjs
    /\ ParseSchedule(schedule, now).ok
    /\ LET r == ScheduleInto(objs, tasks, name, "user", schedule, priority, now)
       IN  objs' = r.objs /\ tasks' = r.tasks
    /\ UNCHANGED <<now, ticks, task_queues, active_tasks, running, workers>>
    /\ UNCHANGED avars

(* schedule_task with a spec on which int() raises: nothing is inserted *)
ScheduleTaskRaises(name, schedule, priority) ==
    /\ ~ParseSchedule(schedule, now).ok
    /\ UNCHANGED vars

(* a cancel that also takes the job out of its queue *)
CancelTaskAndDequeue(id) ==
    LET i == tasks[TableGet(tasks, id)].obj
        queued == \E p \in TaskPriority :
                     \E k \in 1..Len(task_queues[p]) : task_queues[p][k] = i
    IN  /\ HasId(tasks, id)
        /\ objs' = [objs EXCEPT ![i].status = "cancelled"]
        /\ task_queues' = [p \in TaskPriority |->
                              SelectSeq(task_queues[p], LAMBDA j : j # i)]
        /\ active_tasks' = IF queued THEN active_tasks - 1 ELSE active_tasks
        /\ UNCHANGED <<now, ticks, tasks, running, workers>>
        /\ UNCHANGED avars

(* the value cancel_task returns *)
CancelTaskResult(tbl, id) == HasId(tbl, id)

CancelTask(id) ==
    /\ HasId(tasks, id)
    /\ objs' = [objs EXCEPT ![tasks[TableGet(tasks, id)].obj].status = "cancelled"]
    /\ UNCHANGED <<now, ticks, tasks, task_queues, active_tasks, running, workers>>
    /\ UNCHANGED avars

(* cancel_task on an id that is not in the table: returns False *)
CancelTaskUnknown(id) ==
    /\ ~HasId(tasks, id)
    /\ UNCHANGED vars

CancelIds == {TaskId(n, t) : n \in NameInputs, t \in TickTimes}

----------------------------------------------------------------------------
(* start / stop *)

ScheduleDefaultTasks(os, tbl, t) ==
    LET r1 == ScheduleInto(os, tbl, "agent_health_check", "default", Str300s, NORMAL, t)
        r2 == ScheduleInto(r1.objs, r1.tasks, "cost_monitoring", "default", Str3600s, LOW, t)
    IN  ScheduleInto(r2.objs, r2.tasks, "infrastructure_health_check", "default", Str600s, HIGH, t)

Start ==
    /\ ~running
    /\ Len(objs) + 3 <= MaxObjs
    /\ running' = TRUE
    /\ workers' = [w \in Workers |-> [pc |-> "poll", pos |-> CRITICAL, task |-> 0]]
    /\ LET r == ScheduleDefaultTasks(objs, tasks, now)
       IN  objs' = r.objs /\ tasks' = r.tasks
    /\ UNCHANGED <<now, ticks, task_queues, active_tasks>>
    /\ UNCHANGED avars

(* a stop that leaves the counter alone when it cancels an executing worker *)
StopKeepsCount ==
    /\ running
    /\ running' = FALSE
    /\ workers' = [w \in Workers |-> [pc |-> "dead", pos |-> CRITICAL, task |-> 0]]
    /\ UNCHANGED <<now, ticks, objs, tasks, task_queues, active_tasks>>
    /\ UNCHANGED avars

(* stop cancels the dispatch loop and every worker.  A worker cancelled
   inside _execute_task leaves through the finally clause only: the
   CancelledError is not an Exception *)
Stop ==
    /\ running
    /\ running' = FALSE
    /\ workers' = [w \in Workers |-> [pc |-> "dead", pos |-> CRITICAL, task |-> 0]]
    /\ active_tasks' = active_tasks - Cardinality({w \in Workers : workers[w].pc = "exec"})
    /\ UNCHANGED <<now, ticks, objs, tasks, task_queues>>
    /\ UNCHANGED avars

----------------------------------------------------------------------------
(* _scheduler_loop: one scan of the table *)

(* a scan that dispatches a due job whatever its status *)
IsDueAnyStatus(o, t) == o.next_run <= t /\ o.status \in {"pending", "failed"}

(* a scan that does not look at next_run *)
IsDueIgnoresTime(o, t) == o.status = "pending"

IsDue(o, t) == o.status = "pending" /\ o.next_run <= t

RECURSIVE ScanFrom(_, _, _, _)
ScanFrom(k, os, qs, act) ==
    IF k > Len(tasks) THEN [objs |-> os, queues |-> qs, active |-> act]
    ELSE LET i == tasks[k].obj
         IN  IF IsDue(os[i], now)
             THEN ScanFrom(k + 1,
                           [os EXCEPT ![i].status = "running"],
                           [qs EXCEPT ![os[i].priority] = Append(@, i)],
                           act + 1)
             ELSE ScanFrom(k + 1, os, qs, act)

SchedulerScan ==
    /\ running
    /\ \E k \in 1..Len(tasks) : IsDue(objs[tasks[k].obj], now)
    /\ LET r == ScanFrom(1, objs, task_queues, active_tasks)
       IN  /\ objs' = r.objs
           /\ task_queues' = r.queues
           /\ active_tasks' = r.active
    /\ UNCHANGED <<now, ticks, tasks, running, workers>>
    /\ UNCHANGED avars

----------------------------------------------------------------------------
(* _worker_loop *)

(* a worker that reads the head of its queue and leaves it there *)
WorkerGetLeavesJobQueued(w) ==
    /\ workers[w].pc = "poll"
    /\ task_queues[workers[w].pos] # <<>>
    /\ workers' = [workers EXCEPT ![w] =
                     [pc |-> "exec", pos |-> workers[w].pos,
                      task |-> Head(task_queues[workers[w].pos])]]
    /\ UNCHANGED <<now, ticks, objs, tasks, task_queues, active_tasks, running>>
    /\ UNCHANGED avars

(* wait_for(queue.get(), 1.0) returns the head of the queue the worker is
   currently waiting on; _execute_task then runs up to the callable's await *)
WorkerGet(w) ==
    /\ workers[w].pc = "poll"
    /\ task_queues[workers[w].pos] # <<>>
    /\ task_queues' = [task_queues EXCEPT ![workers[w].pos] = Tail(@)]
    /\ workers' = [workers EXCEPT ![w] =
                     [pc |-> "exec", pos |-> workers[w].pos,
                      task |-> Head(task_queues[workers[w].pos])]]
    /\ UNCHANGED <<now, ticks, objs, tasks, active_tasks, running>>
    /\ UNCHANGED avars

(* a worker that starts again from CRITICAL after every timeout *)
WorkerTimeoutBackToTop(w) ==
    /\ workers[w].pc = "poll"
    /\ task_queues[workers[w].pos] = <<>>
    /\ workers' = [workers EXCEPT ![w].pos = CRITICAL]
    /\ UNCHANGED <<now, ticks, objs, tasks, task_queues, active_tasks, running>>
    /\ UNCHANGED avars

(* the wait on the current queue times out: go on to the next lower
   priority, or start the scan again from CRITICAL *)
WorkerTimeout(w) ==
    /\ workers[w].pc = "poll"
    /\ task_queues[workers[w].pos] = <<>>
    /\ workers' = [workers EXCEPT ![w].pos =
                     IF workers[w].pos > LOW THEN workers[w].pos - 1 ELSE CRITICAL]
    /\ UNCHANGED <<now, ticks, objs, tasks, task_queues, active_tasks, running>>
    /\ UNCHANGED avars

(* a completion that advances next_run from the previous next_run *)
TaskSucceededOnSchedule(o, t) ==
    [o EXCEPT !.status = "completed", !.result = "ok", !.last_run = t,
              !.next_run = ParseSchedule(o.schedule, o.next_run).value,
              !.retry_count = 0]

(* _execute_task, the callable returned *)
TaskSucceeded(o, t) ==
    [o EXCEPT !.status = "completed", !.result = "ok", !.last_run = t,
              !.next_run = ParseSchedule(o.schedule, t).value,
              !.retry_count = 0]

(* a handler that counts one fault twice *)
TaskFaultedCountsTwice(o, t) ==
    LET rc == o.retry_count + 2
    IN  IF rc >= o.max_retries
        THEN [o EXCEPT !.error = "fault", !.retry_count = rc, !.status = "failed"]
        ELSE [o EXCEPT !.error = "fault", !.retry_count = rc, !.status = "pending",
                       !.next_run = t + rc * RetryBackoffSeconds]

(* a retry that is due at once *)
TaskFaultedNoBackoff(o, t) ==
    LET rc == o.retry_count + 1
    IN  IF rc >= o.max_retries
        THEN [o EXCEPT !.error = "fault", !.retry_count = rc, !.status = "failed"]
        ELSE [o EXCEPT !.error = "fault", !.retry_count = rc, !.status = "pending",
                       !.next_run = t]

(* a retry policy that gives up only beyond max_retries *)
TaskFaultedStrict(o, t) ==
    LET rc == o.retry_count + 1
    IN  IF rc > o.max_retries
        THEN [o EXCEPT !.error = "fault", !.retry_count = rc, !.status = "failed"]
        ELSE [o EXCEPT !.error = "fault", !.retry_count = rc, !.status = "pending",
                       !.next_run = t + rc * RetryBackoffSeconds]

(* _execute_task, the callable raised *)
TaskFaulted(o, t) ==
    LET rc == o.retry_count + 1
    IN  IF rc >= o.max_retries
        THEN [o EXCEPT !.error = "fault", !.retry_count = rc, !.status = "failed"]
        ELSE [o EXCEPT !.error = "fault", !.retry_count = rc, !.status = "pending",
                       !.next_run = t + rc * RetryBackoffSeconds]

ExecuteTaskSuccess(w) ==
    /\ workers[w].pc = "exec"
    /\ objs' = [objs EXCEPT ![workers[w].task] = TaskSucceeded(@, now)]
    /\ active_tasks' = active_tasks - 1
    /\ workers' = [workers EXCEPT ![w] = [pc |-> "poll", pos |-> CRITICAL, task |-> 0]]
    /\ UNCHANGED <<now, ticks, tasks, task_queues, running>>
    /\ UNCHANGED avars

(* a fault that escapes _execute_task and ends the worker *)
ExecuteTaskFaultStopsWorker(w) ==
    /\ workers[w].pc = "exec"
    /\ objs[workers[w].task].func = "user"
    /\ objs' = [objs EXCEPT ![workers[w].task] = TaskFaulted(@, now)]
    /\ active_tasks' = active_tasks - 1
    /\ workers' = [workers EXCEPT ![w] = [pc |-> "dead", pos |-> CRITICAL, task |-> 0]]
    /\ UNCHANGED <<now, ticks, tasks, task_queues, running>>
    /\ UNCHANGED avars

ExecuteTaskFault(w) ==
    /\ workers[w].pc = "exec"
    /\ objs[workers[w].task].func = "user"
    /\ objs' = [objs EXCEPT ![workers[w].task] = TaskFaulted(@, now)]
    /\ active_tasks' = active_tasks - 1
    /\ workers' = [workers EXCEPT ![w] = [pc |-> "poll", pos |-> CRITICAL, task |-> 0]]
    /\ UNCHANGED <<now, ticks, tasks, task_queues, running>>
    /\ UNCHANGED avars

----------------------------------------------------------------------------
Tick(d) ==
    /\ ticks < MaxTicks
    /\ now' = now + d
    /\ ticks' = ticks + 1
    /\ UNCHANGED <<objs, tasks, task_queues, active_tasks, running, workers>>
    /\ UNCHANGED avars

----------------------------------------------------------------------------
(* The agent layer: src/agents/base.py and src/agents/registry.py *)

MaxConcurrentAgents == 2
AgentTimeout == 2
MaxCalls == 3

Names == {"burst_predictor", "cost_watcher", "anomaly_detector"}
NameArgs == {"burst_predictor", "unknown_agent"}
DirectSlots == {"d1"}
ConcurrentSlots == {"d1", "d2"}
FrameIds == {<<"all", n>> : n \in Names} \cup {<<"direct", d>> : d \in ConcurrentSlots}

(* context_data: for each recognised key, the key is absent, maps to None,
   or maps to a dict *)
CtxFull == [infrastructure |-> "dict", metrics |-> "dict"]
CtxNoInfra == [infrastructure |-> "absent", metrics |-> "dict"]
CtxNoneMetrics == [infrastructure |-> "dict", metrics |-> "none"]
CtxInputs == {CtxFull, CtxNoInfra, CtxNoneMetrics}
FanoutCtxInputs == {CtxFull, CtxNoneMetrics}

(* context_data.get(key, {}) *)
DictGet(ctx, key) == IF ctx[key] = "absent" THEN "dict" ELSE ctx[key]

(* the AgentContext that execute_agent builds *)
MakeContext(name, ctx) ==
    [infrastructure_data |-> DictGet(ctx, "infrastructure"),
     metrics_data |-> DictGet(ctx, "metrics"),
     execution_id |-> "str"]

RequiredFields == {"infrastructure_data", "metrics_data", "execution_id"}

(* BaseAgent.validate_context *)
ValidateContext(context) == \A fld \in RequiredFields : context[fld] # "none"

(* BaseAgent.__init__ *)
NewAgent ==
    [enabled |-> TRUE, status |-> "idle", execution_count |-> 0,
     error_count |-> 0, total_execution_time |-> 0,
     avg_execution_time |-> [num |-> 0, den |-> 1], last_execution |-> NoTime]

(* AgentResult: success, error_message (by kind), execution_time, data (a
   dict, as the sequence of its key/value pairs), recommendations, actions *)
Failure(kind, t) ==
    [success |-> FALSE, error |-> kind, execution_time |-> t,
     data |-> <<>>, recommendations |-> <<>>, actions |-> <<>>]

(* what analyze and optimize return when they return *)
AnalysisResult(ok) ==
    [success |-> ok, data |-> "analysis_data",
     recommendations |-> <<"analysis_rec">>, actions |-> <<"analysis_act">>]

OptimizationResult(ok) ==
    [success |-> ok, data |-> "optimization_data",
     recommendations |-> <<"optimization_rec">>, actions |-> <<"optimization_act">>]

(* the combined result of BaseAgent.execute *)
Success(analysis_result, optimization_result, t) ==
    [success |-> analysis_result.success /\ optimization_result.success,
     error |-> "none", execution_time |-> t,
     data |-> << <<"analysis", analysis_result.data>>,
                 <<"optimization", optimization_result.data>> >>,
     recommendations |->
        analysis_result.recommendations \o optimization_result.recommendations,
     actions |-> analysis_result.actions \o optimization_result.actions]

NoFrame ==
    [pc |-> "none", name |-> "unknown_agent", ctx |-> CtxFull, entered |-> 0,
     start |-> 0, aok |-> FALSE, how |-> "none", res |-> Failure("none", 0)]

InFlight(fr) == fr.pc \in {"spawned", "analyze", "optimize"}

(* an entry check that does not look at the enabled flag *)
EntryErrorSkipsDisabled(name, ctx) ==
    IF name \notin agents THEN "not_found"
    ELSE IF ~ValidateContext(MakeContext(name, ctx)) THEN "invalid_context"
    ELSE "none"

(* execute_agent up to the wait_for: the failed result it returns at once,
   or "none" when it goes on to run the unit *)
EntryError(name, ctx) ==
    IF name \notin agents THEN "not_found"
    ELSE IF ~units[name].enabled THEN "disabled"
    ELSE IF ~ValidateContext(MakeContext(name, ctx)) THEN "invalid_context"
    ELSE "none"

EnterFrame(name, ctx) ==
    IF EntryError(name, ctx) = "none"
    THEN [NoFrame EXCEPT !.pc = "spawned", !.name = name, !.ctx = ctx,
                         !.entered = now]
    ELSE [NoFrame EXCEPT !.pc = "done", !.name = name, !.ctx = ctx,
                         !.how = "entry",
                         !.res = Failure(EntryError(name, ctx), 0)]

(* a semaphore that never blocks *)
SemNeverBlocks(sem) == TRUE

(* the semaphore of execute_all_agents *)
SemAvailable(sem) == sem > 0

IsSub(f) == f[1] = "all"

(* the permit of a sub-call goes back when its execute_agent returns *)
Released(f, e) == IF IsSub(f) THEN [e EXCEPT !.sem = @ + 1] ELSE e

(* execute_agent(name, context_data) called directly *)
ExecuteAgentBegin(d, name, ctx) ==
    /\ frames[<<"direct", d>>].pc \in {"none", "done"}
    /\ ea.calls < MaxCalls
    /\ frames' = [frames EXCEPT ![<<"direct", d>>] = EnterFrame(name, ctx)]
    /\ ea' = [ea EXCEPT !.calls = @ + 1]
    /\ UNCHANGED <<now, ticks, agents, units>>
    /\ UNCHANGED svars

(* list_enabled_agents *)
ListEnabledAgents == {n \in agents : units[n].enabled}

(* execute_all_agents up to the gather (one call is followed to its end) *)
ExecuteAllBegin(ctx) ==
    /\ ea.pc = "idle"
    /\ ea' = [pc |-> "running", snapshot |-> ListEnabledAgents, ctx |-> ctx,
              sem |-> MaxConcurrentAgents, results |-> <<>>,
              calls |-> ea.calls + 1]
    /\ frames' = [f \in FrameIds |->
                    IF IsSub(f)
                    THEN IF f[2] \in ListEnabledAgents
                         THEN [NoFrame EXCEPT !.pc = "wait", !.name = f[2], !.ctx = ctx]
                         ELSE NoFrame
                    ELSE frames[f]]
    /\ UNCHANGED <<now, ticks, agents, units>>
    /\ UNCHANGED svars

(* execute_single_agent: take a permit and run execute_agent up to its
   wait_for, or to the failed result it returns at once *)
SubAcquire(n) ==
    LET f == <<"all", n>>
        fr == EnterFrame(n, ea.ctx)
    IN  /\ ea.pc = "running"
        /\ frames[f].pc = "wait"
        /\ SemAvailable(ea.sem)
        /\ frames' = [frames EXCEPT ![f] = fr]
        /\ ea' = IF fr.pc = "done" THEN ea ELSE [ea EXCEPT !.sem = @ - 1]
        /\ UNCHANGED <<now, ticks, agents, units>>
        /\ UNCHANGED svars

(* BaseAgent.execute up to the await of analyze *)
UnitStart(f) ==
    LET fr == frames[f]
    IN  /\ fr.pc = "spawned"
        /\ IF ~units[fr.name].enabled
           THEN /\ frames' = [frames EXCEPT ![f] =
                     [fr EXCEPT !.pc = "done", !.how = "disabled", !.entered = 0,
                                !.res = Failure("agent_disabled", 0)]]
                /\ ea' = Released(f, ea)
                /\ UNCHANGED units
           ELSE /\ frames' = [frames EXCEPT ![f] =
                     [fr EXCEPT !.pc = "analyze", !.start = now]]
                /\ units' = [units EXCEPT ![fr.name] =
                     [@ EXCEPT !.status = "running",
                               !.execution_count = @ + 1]]
                /\ UNCHANGED ea
        /\ UNCHANGED <<now, ticks, agents>>
        /\ UNCHANGED svars

(* analyze returns its AgentResult *)
AnalyzeReturn(f, ok) ==
    /\ frames[f].pc = "analyze"
    /\ frames' = [frames EXCEPT ![f] = [@ EXCEPT !.pc = "optimize", !.aok = ok]]
    /\ UNCHANGED <<now, ticks, agents, units, ea>>
    /\ UNCHANGED svars

(* _update_performance_metrics: the total, then the average as the
   quotient total / count; with a count of 0 (a reset during the execution)
   the division raises after the total is updated *)
UpdatePerformanceMetrics(u, execution_time) ==
    IF u.execution_count = 0
    THEN [u EXCEPT !.total_execution_time = @ + execution_time]
    ELSE [u EXCEPT !.total_execution_time = @ + execution_time,
                   !.avg_execution_time =
                      [num |-> u.total_execution_time + execution_time,
                       den |-> u.execution_count]]

(* an except clause that does not count the fault *)
UnitFaultedUncounted(u) ==
    [u EXCEPT !.status = "error"]

(* analyze or optimize raised: the except clause *)
UnitFaulted(u) ==
    [u EXCEPT !.error_count = @ + 1, !.status = "error"]

(* optimize returned: the metrics, IDLE and last_execution, or the except
   clause when the division raised *)
UnitCompleted(u, execution_time, t) ==
    IF u.execution_count = 0
    THEN UnitFaulted(UpdatePerformanceMetrics(u, execution_time))
    ELSE [UpdatePerformanceMetrics(u, execution_time) EXCEPT
             !.status = "idle", !.last_execution = t]

OptimizeReturn(f, ok) ==
    LET fr == frames[f]
    IN  /\ fr.pc = "optimize"
        /\ units' = [units EXCEPT ![fr.name] =
                        UnitCompleted(@, now - fr.start, now)]
        /\ frames' = [frames EXCEPT ![f] =
                        IF units[fr.name].execution_count = 0
                        THEN [fr EXCEPT !.pc = "done", !.how = "fault",
                                        !.entered = 0, !.start = 0,
                                        !.res = Failure("fault", now - fr.start)]
                        ELSE [fr EXCEPT !.pc = "done", !.how = "returned",
                                        !.entered = 0, !.start = 0,
                                        !.res = Success(AnalysisResult(fr.aok),
                                                       OptimizationResult(ok),
                                                       now - fr.start)]]
        /\ ea' = Released(f, ea)
        /\ UNCHANGED <<now, ticks, agents>>
        /\ UNCHANGED svars

UnitFault(f) ==
    LET fr == frames[f]
    IN  /\ fr.pc \in {"analyze", "optimize"}
        /\ units' = [units EXCEPT ![fr.name] = UnitFaulted(@)]
        /\ frames' = [frames EXCEPT ![f] =
                        [fr EXCEPT !.pc = "done", !.how = "fault",
                                   !.entered = 0, !.start = 0,
                                   !.res = Failure("fault", now - fr.start)]]
        /\ ea' = Released(f, ea)
        /\ UNCHANGED <<now, ticks, agents>>
        /\ UNCHANGED svars

(* the deadline of wait_for *)
Expired(fr, t) == t - fr.entered >= AgentTimeout

(* a deadline return that keeps the permit of the sub-call *)
DeadlineExpireKeepsPermit(f) ==
    LET fr == frames[f]
    IN  /\ InFlight(fr)
        /\ Expired(fr, now)
        /\ frames' = [frames EXCEPT ![f] =
                        [fr EXCEPT !.pc = "done", !.how = "deadline",
                                   !.entered = 0, !.start = 0,
                                   !.res = Failure("timed_out", 0)]]
        /\ UNCHANGED <<now, ticks, agents, units, ea>>
        /\ UNCHANGED svars

(* wait_for cancels the unit's task and execute_agent returns the timeout
   result; the CancelledError passes the unit's except clause *)
DeadlineExpire(f) ==
    LET fr == frames[f]
    IN  /\ InFlight(fr)
        /\ Expired(fr, now)
        /\ frames' = [frames EXCEPT ![f] =
                        [fr EXCEPT !.pc = "done", !.how = "deadline",
                                   !.entered = 0, !.start = 0,
                                   !.res = Failure("timed_out", 0)]]
        /\ ea' = Released(f, ea)
        /\ UNCHANGED <<now, ticks, agents, units>>
        /\ UNCHANGED svars

(* BaseAgent.execute of a unit whose analyze and optimize never yield to
   the event loop (CostWatcherAgent.analyze awaits _fetch_aws_cost_data,
   which calls boto3 synchronously; the other built-in units contain no
   await that suspends): the whole execution is one step of the event loop
   and takes d seconds of wall clock, during which no timer callback runs.
   wait_for then finds the task done and returns its result *)
UnitRunsWithoutYielding(f, d, out) ==
    LET fr == frames[f]
        u == [units[fr.name] EXCEPT !.status = "running",
                                    !.execution_count = @ + 1]
    IN  /\ fr.pc = "spawned"
        /\ units[fr.name].enabled
        /\ ticks + d <= MaxTicks
        /\ now' = now + d
        /\ ticks' = ticks + d
        /\ units' = [units EXCEPT ![fr.name] =
                        IF out = "fault" THEN UnitFaulted(u)
                        ELSE UnitCompleted(u, d, now + d)]
        /\ frames' = [frames EXCEPT ![f] =
                        [fr EXCEPT !.pc = "done", !.aok = (out = "ok"),
                                   !.how = IF out = "fault" THEN "fault" ELSE "returned",
                                   !.entered = 0, !.start = 0,
                                   !.res = IF out = "fault" THEN Failure("fault", d)
                                           ELSE Success(AnalysisResult(out = "ok"),
                                                        OptimizationResult(out = "ok"), d)]]
        /\ ea' = Released(f, ea)
        /\ UNCHANGED agents
        /\ UNCHANGED svars

(* a loop that stops at the first failed result *)
CollectUntilFailure(outs) ==
    IF \E n \in DOMAIN outs : ~outs[n].success
    THEN [n \in {m \in DOMAIN outs : outs[m].success} |-> outs[n]]
    ELSE [n \in DOMAIN outs |-> outs[n]]

(* the loop over agent_results after the gather *)
CollectResults(outs) == [n \in DOMAIN outs |-> outs[n]]

ExecuteAllEnd ==
    /\ ea.pc = "running"
    /\ \A n \in ea.snapshot : frames[<<"all", n>>].pc = "done"
    /\ ea' = [ea EXCEPT !.pc = "done",
                        !.results = CollectResults(
                            [n \in ea.snapshot |-> frames[<<"all", n>>].res])]
    /\ UNCHANGED <<now, ticks, agents, units, frames>>
    /\ UNCHANGED svars

(* enable_agent / disable_agent / reset_agent *)
EnableAgent(n) ==
    /\ n \in agents
    /\ units' = [units EXCEPT ![n] = [@ EXCEPT !.enabled = TRUE, !.status = "idle"]]
    /\ UNCHANGED <<now, ticks, agents, frames, ea>>
    /\ UNCHANGED svars

(* a disable that leaves the status as it is *)
DisableAgentKeepsStatus(n) ==
    /\ n \in agents
    /\ units' = [units EXCEPT ![n] = [@ EXCEPT !.enabled = FALSE]]
    /\ UNCHANGED <<now, ticks, agents, frames, ea>>
    /\ UNCHANGED svars

DisableAgent(n) ==
    /\ n \in agents
    /\ units' = [units EXCEPT ![n] = [@ EXCEPT !.enabled = FALSE, !.status = "disabled"]]
    /\ UNCHANGED <<now, ticks, agents, frames, ea>>
    /\ UNCHANGED svars

(* a reset that also puts the status back to Idle *)
ResetAgentAndStatus(n) ==
    /\ n \in agents
    /\ units' = [units EXCEPT ![n] =
                   [@ EXCEPT !.execution_count = 0, !.error_count = 0,
                             !.total_execution_time = 0,
                             !.avg_execution_time = [num |-> 0, den |-> 1],
                             !.last_execution = NoTime, !.status = "idle"]]
    /\ UNCHANGED <<now, ticks, agents, frames, ea>>
    /\ UNCHANGED svars

ResetAgent(n) ==
    /\ n \in agents
    /\ units' = [units EXCEPT ![n] =
                   [@ EXCEPT !.execution_count = 0, !.error_count = 0,
                             !.total_execution_time = 0,
                             !.avg_execution_time = [num |-> 0, den |-> 1],
                             !.last_execution = NoTime]]
    /\ UNCHANGED <<now, ticks, agents, frames, ea>>
    /\ UNCHANGED svars

(* the value enable_agent, disable_agent and reset_agent return *)
AdminResult(n) == n \in agents

(* enable_agent, disable_agent or reset_agent on a name that is not
   registered: returns False *)
AdminUnknown(n) ==
    /\ n \notin agents
    /\ UNCHANGED vars

(* a register that replaces the unit already registered under the name *)
RegisterAgentOverwrites(n) ==
    /\ agents' = agents \cup {n}
    /\ units' = [units EXCEPT ![n] = NewAgent]
    /\ UNCHANGED <<now, ticks, frames, ea>>
    /\ UNCHANGED svars

(* the value register_agent returns *)
RegisterResult(n) == n \notin agents

(* register_agent with a new unit object named n.  The new object takes the
   place of units[n]; it is registered here only when no execution of the
   object unregistered before is still in flight *)
RegisterAgent(n) ==
    /\ n \in agents \/ \A f \in FrameIds : frames[f].name = n => ~InFlight(frames[f])
    /\ IF n \in agents
       THEN UNCHANGED <<agents, units>>
       ELSE /\ agents' = agents \cup {n}
            /\ units' = [units EXCEPT ![n] = NewAgent]
    /\ UNCHANGED <<now, ticks, frames, ea>>
    /\ UNCHANGED svars

(* the value unregister_agent returns *)
UnregisterResult(n) == n \in agents

(* unregister_agent: the name leaves the table; the object lives on for an
   execution that holds it *)
UnregisterAgent(n) ==
    /\ agents' = agents \ {n}
    /\ UNCHANGED <<now, ticks, units, frames, ea>>
    /\ UNCHANGED svars

(* a snapshot that counts every enabled unit as healthy *)
GetOverallHealthIgnoresStatus ==
    [total_agents |-> Cardinality(agents),
     enabled_agents |-> Cardinality({n \in agents : units[n].enabled}),
     healthy_agents |-> Cardinality({n \in agents : units[n].enabled})]

(* get_overall_health: the three counts *)
GetOverallHealth ==
    LET enabled_agents == {n \in agents : units[n].enabled}
        healthy_agents == {n \in enabled_agents : units[n].status # "error"}
    IN  [total_agents |-> Cardinality(agents),
         enabled_agents |-> Cardinality(enabled_agents),
         healthy_agents |-> Cardinality(healthy_agents)]

(* list_agents: the status and the enabled flag of every registered unit *)
ListAgents == [n \in agents |-> [status |-> units[n].status,
                                  enabled |-> units[n].enabled]]

(* _agent_health_check: the units counted healthy, and whether the alert
   is sent *)
HealthyCount == Cardinality({n \in agents : ListAgents[n].status = "healthy"})

AgentHealthCheckSendsAlert == HealthyCount < Cardinality(agents)

(* a task the event loop can run at once: a unit's task that wait_for has
   just created, a sub-call for which a permit is free, a call whose
   deadline is reached *)
Ready(f) ==
    \/ frames[f].pc = "spawned"
    \/ frames[f].pc = "wait" /\ SemAvailable(ea.sem)
    \/ InFlight(frames[f]) /\ Expired(frames[f], now)

(* one second passes: the event loop runs what is ready before it sleeps *)
AgentTick ==
    /\ ticks < MaxTicks
    /\ \A f \in FrameIds : ~Ready(f)
    /\ now' = now + 1
    /\ ticks' = ticks + 1
    /\ UNCHANGED <<agents, units, frames, ea>>
    /\ UNCHANGED svars

(* one second passes while a call is waiting for its unit: the event loop
   sleeps until the next timer *)
AgentTickWaiting ==
    /\ \E f \in FrameIds : InFlight(frames[f])
    /\ \A f \in FrameIds : ~Ready(f)
    /\ now' = now + 1
    /\ UNCHANGED <<ticks, agents, units, frames, ea>>
    /\ UNCHANGED svars

----------------------------------------------------------------------------
Init ==
    /\ now = 0
    /\ ticks = 0
    /\ objs = <<>>
    /\ tasks = <<>>
    /\ task_queues = [p \in TaskPriority |-> <<>>]
    /\ active_tasks = 0
    /\ running = FALSE
    /\ workers = [w \in Workers |-> [pc |-> "dead", pos |-> CRITICAL, task |-> 0]]
    /\ agents = Names
    /\ units = [n \in Names |-> NewAgent]
    /\ frames = [f \in FrameIds |-> NoFrame]
    /\ ea = [pc |-> "idle", snapshot |-> {}, ctx |-> CtxFull,
             sem |-> MaxConcurrentAgents, results |-> <<>>, calls |-> 0]

Next ==
    \/ \E n \in NameInputs, s \in ScheduleInputs, p \in PriorityInputs :
          ScheduleTask(n, s, p)
    \/ \E n \in NameInputs, s \in ScheduleInputs, p \in PriorityInputs :
          ScheduleTaskRaises(n, s, p)
    \/ \E n \in NameInputs, t \in TickTimes : CancelTask(TaskId(n, t))
    \/ \E id \in CancelIds : CancelTaskUnknown(id)
    \/ Start
    \/ Stop
    \/ SchedulerScan
    \/ \E w \in Workers : WorkerGet(w)
    \/ \E w \in Workers : WorkerTimeout(w)
    \/ \E w \in Workers : ExecuteTaskSuccess(w)
    \/ \E w \in Workers : ExecuteTaskFault(w)
    \/ \E d \in TickSteps : Tick(d)

Spec == Init /\ [][Next]_vars

(* The scheduler while it runs, with workers that keep taking steps and
   callables that end *)
LiveNext ==
    \/ \E n \in NameInputs, s \in ScheduleInputs, p \in PriorityInputs :
          ScheduleTask(n, s, p)
    \/ Start
    \/ SchedulerScan
    \/ \E w \in Workers : WorkerGet(w)
    \/ \E w \in Workers : WorkerTimeout(w)
    \/ \E w \in Workers : ExecuteTaskSuccess(w)
    \/ \E w \in Workers : ExecuteTaskFault(w)
    \/ \E d \in TickSteps : Tick(d)

LiveSpec ==
    /\ Init
    /\ [][LiveNext]_vars
    /\ \A w \in Workers :
          /\ WF_vars(WorkerGet(w))
          /\ WF_vars(WorkerTimeout(w))
          /\ WF_vars(ExecuteTaskSuccess(w) \/ ExecuteTaskFault(w))

(* The running scheduler when schedule_task is given interval specs whose
   integer carries a sign *)
SignedNext ==
    \/ \E n \in NameInputs, s \in SignedScheduleInputs, p \in PriorityInputs :
          ScheduleTask(n, s, p)
    \/ Start
    \/ SchedulerScan
    \/ \E w \in Workers : WorkerGet(w)
    \/ \E w \in Workers : WorkerTimeout(w)
    \/ \E w \in Workers : ExecuteTaskSuccess(w)
    \/ \E w \in Workers : ExecuteTaskFault(w)
    \/ \E d \in TickSteps : Tick(d)

SignedSpec == Init /\ [][SignedNext]_vars

AdminNames == {"burst_predictor"}
BlockSeconds == 0..MaxTicks
Outcomes == {"ok", "unsuccessful", "fault"}

(* Calls of execute_agent made directly, one at a time, on units that are
   enabled, disabled and reset in between and meanwhile *)
AgentNext ==
    \/ \E d \in DirectSlots, n \in NameArgs, c \in CtxInputs : ExecuteAgentBegin(d, n, c)
    \/ \E f \in FrameIds : UnitStart(f)
    \/ \E f \in FrameIds, ok \in BOOLEAN : AnalyzeReturn(f, ok)
    \/ \E f \in FrameIds, ok \in BOOLEAN : OptimizeReturn(f, ok)
    \/ \E f \in FrameIds : UnitFault(f)
    \/ \E f \in FrameIds : DeadlineExpire(f)
    \/ \E f \in FrameIds, d \in BlockSeconds, out \in Outcomes :
          UnitRunsWithoutYielding(f, d, out)
    \/ \E n \in AdminNames : EnableAgent(n)
    \/ \E n \in AdminNames : DisableAgent(n)
    \/ \E n \in AdminNames : ResetAgent(n)
    \/ AgentTick

AgentSpec == Init /\ [][AgentNext]_vars

(* Calls of execute_agent while units are registered, unregistered,
   enabled, disabled and reset *)
RegistryNext ==
    \/ AgentNext
    \/ \E n \in AdminNames : RegisterAgent(n)
    \/ \E n \in AdminNames : UnregisterAgent(n)
    \/ \E n \in NameArgs : AdminUnknown(n)

RegistrySpec == Init /\ [][RegistryNext]_vars

(* One call of execute_all_agents, while units are disabled and enabled *)
FanoutNext ==
    \/ \E c \in FanoutCtxInputs : ExecuteAllBegin(c)
    \/ \E n \in Names : SubAcquire(n)
    \/ \E f \in FrameIds : UnitStart(f)
    \/ \E f \in FrameIds, ok \in BOOLEAN : AnalyzeReturn(f, ok)
    \/ \E f \in FrameIds, ok \in BOOLEAN : OptimizeReturn(f, ok)
    \/ \E f \in FrameIds : UnitFault(f)
    \/ \E f \in FrameIds : DeadlineExpire(f)
    \/ \E f \in FrameIds, d \in BlockSeconds, out \in Outcomes :
          UnitRunsWithoutYielding(f, d, out)
    \/ ExecuteAllEnd
    \/ \E n \in AdminNames : EnableAgent(n)
    \/ \E n \in AdminNames : DisableAgent(n)
    \/ AgentTick

FanoutSpec == Init /\ [][FanoutNext]_vars

(* Two callers of execute_agent that are separate tasks of the same event
   loop, with units that suspend at the awaits of analyze and optimize or
   run without yielding *)
ConcurrentNext ==
    \/ \E d \in ConcurrentSlots, n \in AdminNames, c \in {CtxFull} :
          ExecuteAgentBegin(d, n, c)
    \/ \E f \in FrameIds : UnitStart(f)
    \/ \E f \in FrameIds, ok \in BOOLEAN : AnalyzeReturn(f, ok)
    \/ \E f \in FrameIds, ok \in BOOLEAN : OptimizeReturn(f, ok)
    \/ \E f \in FrameIds : UnitFault(f)
    \/ \E f \in FrameIds : DeadlineExpire(f)
    \/ \E f \in FrameIds, d \in BlockSeconds, out \in Outcomes :
          UnitRunsWithoutYielding(f, d, out)
    \/ AgentTick

ConcurrentSpec == Init /\ [][ConcurrentNext]_vars

(* One call of execute_all_agents together with direct calls of
   execute_agent, all tasks of the same event loop, within one second *)
MixedNext ==
    \/ \E c \in {CtxFull} : ExecuteAllBegin(c)
    \/ \E n \in Names : SubAcquire(n)
    \/ \E d \in DirectSlots, n \in AdminNames, c \in {CtxFull} :
          ExecuteAgentBegin(d, n, c)
    \/ \E f \in FrameIds : UnitStart(f)
    \/ \E f \in FrameIds, ok \in BOOLEAN : AnalyzeReturn(f, ok)
    \/ \E f \in FrameIds, ok \in BOOLEAN : OptimizeReturn(f, ok)
    \/ \E f \in FrameIds : UnitFault(f)
    \/ ExecuteAllEnd

MixedSpec == Init /\ [][MixedNext]_vars

(* One call of execute_all_agents followed to its return: the event loop
   runs every task that is ready and every timer that is due; a unit may
   stay suspended in analyze or optimize for ever *)
FanoutLiveNext ==
    \/ \E c \in FanoutCtxInputs : ExecuteAllBegin(c)
    \/ \E n \in Names : SubAcquire(n)
    \/ \E f \in FrameIds : UnitStart(f)
    \/ \E f \in FrameIds, ok \in BOOLEAN : AnalyzeReturn(f, ok)
    \/ \E f \in FrameIds, ok \in BOOLEAN : OptimizeReturn(f, ok)
    \/ \E f \in FrameIds : UnitFault(f)
    \/ \E f \in FrameIds : DeadlineExpire(f)
    \/ \E f \in FrameIds, d \in BlockSeconds, out \in Outcomes :
          UnitRunsWithoutYielding(f, d, out)
    \/ ExecuteAllEnd
    \/ AgentTickWaiting

FanoutLiveSpec ==
    /\ Init
    /\ [][FanoutLiveNext]_vars
    /\ \A n \in Names : WF_vars(SubAcquire(n))
    /\ \A f \in FrameIds : WF_vars(UnitStart(f)) /\ WF_vars(DeadlineExpire(f))
    /\ WF_vars(ExecuteAllEnd)
    /\ WF_vars(AgentTickWaiting)

----------------------------------------------------------------------------
(* Claims about the scheduler, under Spec *)

(* C1: after a worker executes a job whose callable returns without fault,
   the job is Pending again, with last_run set and retry_count = 0: it does
   not stay Completed. *)
C1_SuccessReturnsToPending ==
    [][\A w \in Workers :
          ExecuteTaskSuccess(w) =>
             /\ objs'[workers[w].task].status = "pending"
             /\ objs'[workers[w].task].last_run # NoTime
             /\ objs'[workers[w].task].retry_count = 0]_vars

(* C2: Cancelled is terminal: no step changes the status of a job that is
   Cancelled. *)
C2_CancelledIsTerminal ==
    [][\A i \in 1..Len(objs) :
          objs[i].status = "cancelled" => objs'[i].status = "cancelled"]_vars

(* C3, as stated: a job is Failed only once its retry_count is greater than
   max_retries. *)
C3_FailedOnlyBeyondMaxRetries ==
    \A i \in 1..Len(objs) :
       objs[i].status = "failed" => objs[i].retry_count > objs[i].max_retries

(* C3, amended: a fault increments retry_count; the job becomes Failed when
   the incremented retry_count is greater than or equal to max_retries, and
   otherwise goes back to Pending with next_run = now + retry_count * 5 min.
   With max_retries = 3 the third consecutive fault fails the job, after
   max_retries - 1 retries. *)
C3_FailedAtMaxRetries ==
    [][\A w \in Workers :
          ExecuteTaskFault(w) =>
             LET o == objs[workers[w].task]
                 p == objs'[workers[w].task]
             IN  /\ p.retry_count = o.retry_count + 1
                 /\ p.status = IF p.retry_count >= p.max_retries
                               THEN "failed" ELSE "pending"
                 /\ p.status = "pending" =>
                       p.next_run = now + p.retry_count * RetryBackoffSeconds
                 /\ p.status = "failed" =>
                       (p.retry_count = DefaultMaxRetries /\ p.next_run = o.next_run)]_vars

C3_Witness ==
    \E i \in 1..Len(objs) :
       /\ objs[i].status = "failed"
       /\ objs[i].retry_count = objs[i].max_retries
       /\ objs[i].error = "fault"

(* C11: for every job, retry_count <= max_retries in every reachable
   state. *)
C11_RetryCountBounded ==
    \A i \in 1..Len(objs) : objs[i].retry_count <= objs[i].max_retries

C11_Witness ==
    /\ \E i \in 1..Len(objs) :
          objs[i].retry_count = objs[i].max_retries /\ objs[i].error = "fault"
    /\ \E j \in 1..Len(objs) :
          objs[j].status = "completed" /\ objs[j].retry_count = 0

(* C12: once a job is Failed, no step of the dispatch loop or of a worker
   changes its status, next_run or retry_count, and the job is in no queue
   and in no worker's hands. *)
C12_FailedIsFrozen ==
    /\ [](\A i \in 1..Len(objs) :
            objs[i].status = "failed" =>
               /\ \A p \in TaskPriority :
                     \A k \in 1..Len(task_queues[p]) : task_queues[p][k] # i
               /\ \A w \in Workers :
                     workers[w].pc = "exec" => workers[w].task # i)
    /\ [][\A i \in 1..Len(objs) :
            (/\ objs[i].status = "failed"
             /\ ~\E n \in NameInputs, t \in TickTimes : CancelTask(TaskId(n, t)))
            => /\ objs'[i].status = "failed"
               /\ objs'[i].next_run = objs[i].next_run
               /\ objs'[i].retry_count = objs[i].retry_count]_vars

C12_Witness ==
    /\ running
    /\ \E i \in 1..Len(objs) :
          /\ objs[i].status = "failed"
          /\ objs[i].next_run <= now
    /\ \E j \in 1..Len(objs) : objs[j].status = "running"

(* C13: a job's status changes to Cancelled only from Pending or Running. *)
C13_CancelledOnlyFromPendingOrRunning ==
    [][\A i \in 1..Len(objs) :
          (objs[i].status # "cancelled" /\ objs'[i].status = "cancelled")
             => objs[i].status \in {"pending", "running"}]_vars

(* C14: cancel_task on a known id returns true and changes nothing but the
   stored status of that job: its other fields, the other jobs, the table,
   the queues, the active-task counter and the workers (so an execution in
   progress) stay as they are; on an unknown id it returns false and changes
   nothing. *)
C14_CancelChangesOnlyStatus ==
    [][\A id \in CancelIds :
          /\ CancelTask(id) =>
                LET i == tasks[TableGet(tasks, id)].obj
                IN  /\ CancelTaskResult(tasks, id)
                    /\ objs' = [objs EXCEPT ![i] =
                                   [objs[i] EXCEPT !.status = "cancelled"]]
                    /\ UNCHANGED <<tasks, task_queues, active_tasks, running,
                                   workers, now>>
          /\ CancelTaskUnknown(id) =>
                (~CancelTaskResult(tasks, id) /\ UNCHANGED vars)]_vars

C14_Witness ==
    \E w \in Workers :
       /\ workers[w].pc = "exec"
       /\ objs[workers[w].task].status = "cancelled"
       /\ active_tasks >= 1
       /\ \E id \in CancelIds : ~HasId(tasks, id)

(* an interval spec: an integer followed by s, m, h or d; its duration *)
IsIntervalSpec(s) ==
    /\ Len(s) > 1
    /\ s[Len(s)] \in {"s", "m", "h", "d"}
    /\ PyInt(SubSeq(s, 1, Len(s) - 1)).ok

IntervalSeconds(s) ==
    PyInt(SubSeq(s, 1, Len(s) - 1)).value * UnitSeconds(s[Len(s)])

(* C15: for a job with an interval spec of duration D, next_run is
   created_at + D right after schedule_task, and T + D after a successful
   run that completes at T. *)
C15_NextRunFromCompletion ==
    /\ [][\A n \in NameInputs, s \in ScheduleInputs, p \in PriorityInputs :
            (ScheduleTask(n, s, p) /\ IsIntervalSpec(s)) =>
               LET o == objs'[Len(objs) + 1]
               IN  /\ o.created_at = now
                   /\ o.next_run = o.created_at + IntervalSeconds(s)]_vars
    /\ [][\A w \in Workers :
            (ExecuteTaskSuccess(w) /\ IsIntervalSpec(objs[workers[w].task].schedule)) =>
               LET o == objs'[workers[w].task]
               IN  /\ o.last_run = now
                   /\ o.next_run = now + IntervalSeconds(o.schedule)]_vars

C15_Witness ==
    \E i \in 1..Len(objs) :
       /\ IsIntervalSpec(objs[i].schedule)
       /\ objs[i].status = "completed"
       /\ objs[i].last_run > objs[i].created_at + IntervalSeconds(objs[i].schedule)
       /\ objs[i].next_run = objs[i].last_run + IntervalSeconds(objs[i].schedule)

(* C16: a fault at time T with retries remaining increments retry_count by
   one, makes the job Pending and sets next_run = T + retry_count * 5 min;
   the dispatch loop enqueues no Pending job before its next_run. *)
C16_LinearBackoff ==
    /\ [][\A w \in Workers :
            (/\ ExecuteTaskFault(w)
             /\ objs[workers[w].task].retry_count + 1
                   < objs[workers[w].task].max_retries) =>
               LET o == objs[workers[w].task]
                   q == objs'[workers[w].task]
               IN  /\ q.retry_count = o.retry_count + 1
                   /\ q.status = "pending"
                   /\ q.next_run = now + q.retry_count * 5 * 60]_vars
    /\ [][\A i \in 1..Len(objs) :
            (objs[i].status = "pending" /\ objs'[i].status = "running")
               => objs[i].next_run <= now]_vars

C16_Witness ==
    \E i \in 1..Len(objs) :
       /\ objs[i].status = "pending"
       /\ objs[i].retry_count = 2
       /\ objs[i].next_run = now + 600
       /\ running

(* C17: schedule_task accepts every schedule string: for every string that
   is not an interval spec, whatever its last character, parsing does not
   fail and gives next_run = now + 5 minutes. *)
C17_EveryStringAccepted ==
    \A s \in ScheduleInputs :
       ~IsIntervalSpec(s) =>
          /\ ParseSchedule(s, now).ok
          /\ ParseSchedule(s, now).value = now + 5 * 60

(* C18: a fault of a job's callable stops neither a worker nor the
   dispatch loop: the fault is recorded on the job, the worker that ran it
   polls the queues again from the top, the other workers and the running
   flag are untouched; while the scheduler runs every worker is alive and a
   due Pending job can always be dispatched. *)
C18_FaultStopsNothing ==
    /\ [](running =>
            /\ \A w \in Workers : workers[w].pc \in {"poll", "exec"}
            /\ (\E k \in 1..Len(tasks) : IsDue(objs[tasks[k].obj], now))
                  => ENABLED SchedulerScan)
    /\ [][\A w \in Workers :
            ExecuteTaskFault(w) =>
               /\ objs'[workers[w].task].error = "fault"
               /\ workers'[w].pc = "poll" /\ workers'[w].pos = CRITICAL
               /\ \A v \in Workers \ {w} : workers'[v] = workers[v]
               /\ running' = running]_vars

C18_Witness ==
    /\ running
    /\ \E i \in 1..Len(objs) : objs[i].error = "fault"
    /\ \A w \in Workers :
          workers[w].pc = "exec" /\ objs[workers[w].task].error = "none"

InTable(i) == \E k \in 1..Len(tasks) : tasks[k].obj = i

CountIn(q, i) == Cardinality({k \in 1..Len(q) : q[k] = i})

(* C25: a dispatch scan enqueues a job of the table if and only if it is
   Pending with next_run <= now: such a job is appended once to the queue of
   its own priority and becomes Running, every other job and queue entry is
   left alone; each queue holds only jobs of its priority, and a job in a
   worker's hands has next_run <= now. *)
C25_ScanEnqueuesExactlyDueJobs ==
    /\ [](\A p \in TaskPriority :
            \A k \in 1..Len(task_queues[p]) :
               objs[task_queues[p][k]].priority = p)
    /\ [](\A w \in Workers :
            workers[w].pc = "exec" => objs[workers[w].task].next_run <= now)
    /\ [][SchedulerScan =>
            \A i \in 1..Len(objs) :
               IF InTable(i) /\ objs[i].status = "pending" /\ objs[i].next_run <= now
               THEN /\ objs'[i] = [objs[i] EXCEPT !.status = "running"]
                    /\ \A p \in TaskPriority :
                          CountIn(task_queues'[p], i)
                            = CountIn(task_queues[p], i)
                                + (IF p = objs[i].priority THEN 1 ELSE 0)
               ELSE /\ objs'[i] = objs[i]
                    /\ \A p \in TaskPriority :
                          CountIn(task_queues'[p], i) = CountIn(task_queues[p], i)]_vars

C25_Witness ==
    /\ Cardinality({p \in TaskPriority : task_queues[p] # <<>>}) >= 2
    /\ \E i \in 1..Len(objs) :
          InTable(i) /\ objs[i].status = "pending" /\ objs[i].next_run > now

Queued(i) == \E p \in TaskPriority : CountIn(task_queues[p], i) > 0

(* C26: a worker takes a job from a queue only while it waits on that
   queue, reaches a lower queue only after its wait on the queue above found
   it empty, and starts again from CRITICAL after every execution, so a
   lower queue is served only when the higher ones were found empty; once
   arrivals stop, fair workers with terminating callables eventually take
   every queued job of every priority. *)
C26_StrictPriorityProgress ==
    /\ [][\A w \in Workers :
            /\ workers'[w].pos < workers[w].pos =>
                  (/\ task_queues[workers[w].pos] = <<>>
                   /\ workers'[w].pos = workers[w].pos - 1
                   /\ workers'[w].pc = "poll")
            /\ (workers[w].pc = "poll" /\ workers'[w].pc = "exec") =>
                  (/\ workers'[w].task = Head(task_queues[workers[w].pos])
                   /\ workers'[w].pos = workers[w].pos)
            /\ (workers[w].pc = "exec" /\ workers'[w].pc = "poll") =>
                  workers'[w].pos = CRITICAL]_vars
    /\ \A i \in 1..MaxObjs : Queued(i) ~> ~Queued(i)

C26_Witness ==
    /\ task_queues[LOW] # <<>>
    /\ task_queues[HIGH] # <<>>
    /\ \A w \in Workers : workers[w].pc = "poll" /\ workers[w].pos = CRITICAL

(* number of places that hold job i: entries of the priority queues plus
   workers executing it *)
HeldCount(i) ==
    CountIn(task_queues[LOW], i) + CountIn(task_queues[NORMAL], i)
      + CountIn(task_queues[HIGH], i) + CountIn(task_queues[CRITICAL], i)
      + Cardinality({w \in Workers : workers[w].pc = "exec" /\ workers[w].task = i})

(* C27: at any moment each job is held at most once: never twice across the
   priority queues, never in a queue while a worker executes it, never
   executed by two workers at once, whatever the interleaving of scans,
   executions, faults with retry and Cancel. *)
C27_JobHeldAtMostOnce == \A i \in 1..Len(objs) : HeldCount(i) <= 1

(* a job that faulted and was cancelled is queued again for its retry while
   a worker executes another job *)
C27_Witness ==
    \E i \in 1..Len(objs) :
       /\ objs[i].retry_count >= 1
       /\ Queued(i)
       /\ \E k \in 1..Len(objs) : objs[k].status = "cancelled"
       /\ \E w \in Workers : workers[w].pc = "exec" /\ workers[w].task # i

(* C10: whenever a worker dequeues a job, every queue of higher priority is
   empty. *)
C10_DequeueFromHighestNonEmpty ==
    [][\A w \in Workers :
          WorkerGet(w) =>
             \A p \in TaskPriority :
                p > workers[w].pos => task_queues[p] = <<>>]_vars

(* C31: a job that is cancelled before any worker has started executing it,
   still Pending or already in a priority queue, never has its callable
   invoked afterwards. *)
C31_CancelledBeforeStartNeverRuns ==
    [][\A w \in Workers :
         WorkerGet(w) =>
            LET o == objs[Head(task_queues[workers[w].pos])]
            IN  ~(/\ o.status = "cancelled"
                  /\ o.retry_count = 0
                  /\ o.last_run = NoTime)]_vars

(* C32: every schedule_task call adds a new job record: the id it returns
   is not yet in the table and no entry of the table is replaced, also for
   two calls with the same name within the same clock second. *)
C32_ScheduleAlwaysAddsARecord ==
    [][\A n \in NameInputs, s \in ScheduleInputs, p \in PriorityInputs :
         ScheduleTask(n, s, p) =>
            /\ ~HasId(tasks, TaskId(n, now))
            /\ Len(tasks') = Len(tasks) + 1
            /\ \A k \in 1..Len(tasks) : tasks'[k] = tasks[k]]_vars

(* C36: every job whose status is Running is waiting in a priority queue
   or being executed by a worker, also after a stop during an execution and
   after a restart. *)
C36_RunningJobIsHeld ==
    \A i \in 1..Len(objs) : objs[i].status = "running" => HeldCount(i) >= 1

QueuedTotal ==
    Len(task_queues[LOW]) + Len(task_queues[NORMAL])
      + Len(task_queues[HIGH]) + Len(task_queues[CRITICAL])

ExecutingTotal == Cardinality({w \in Workers : workers[w].pc = "exec"})

(* C37: active_tasks equals the number of jobs waiting in the priority
   queues plus the number of jobs being executed by workers and is never
   negative, across dispatch, execution, fault, Cancel and stop. *)
C37_ActiveTasksCountsHeldJobs ==
    /\ active_tasks = QueuedTotal + ExecutingTotal
    /\ active_tasks >= 0

(* the scheduler was stopped during an execution while another job was
   still queued *)
C37_Witness ==
    /\ ~running
    /\ active_tasks > 0
    /\ \E i \in 1..Len(objs) : objs[i].status = "running" /\ HeldCount(i) = 0
    /\ \E i \in 1..Len(objs) : objs[i].status = "cancelled"

(* C40: an execution of the agent_health_check job sends an alert only when
   a registered unit is in Error: with every registered unit Idle or
   Running it sends none. *)
C40_AlertOnlyWhenUnhealthy ==
    [][\A w \in Workers :
         (/\ ExecuteTaskSuccess(w)
          /\ objs[workers[w].task].name = "agent_health_check"
          /\ \A n \in agents : units[n].status \in {"idle", "running"})
            => ~AgentHealthCheckSendsAlert]_vars

----------------------------------------------------------------------------
(* Claims about single calls of execute_agent, under AgentSpec *)

LacksRequiredKey(ctx) == ctx.infrastructure = "absent" \/ ctx.metrics = "absent"

Quiescent(n) == \A f \in FrameIds : frames[f].name = n => ~InFlight(frames[f])

(* C5: a call whose context input lacks the infrastructure key or the
   metrics key returns at once, a failed result: the unit is not invoked. *)
C5_MissingKeyFailsFast ==
    \A f \in FrameIds :
       (frames[f].pc # "none" /\ LacksRequiredKey(frames[f].ctx))
          => (frames[f].pc = "done" /\ frames[f].how = "entry")

(* C6: for a unit with execution_count > 0 and no execution in flight,
   avg_execution_time * execution_count = total_execution_time. *)
C6_AverageIsTotalOverCount ==
    \A n \in Names :
       (units[n].execution_count > 0 /\ Quiescent(n))
          => units[n].avg_execution_time.num * units[n].execution_count
               = units[n].total_execution_time * units[n].avg_execution_time.den

(* C7: every execute call that a unit ends itself, by a result or by a
   fault, adds its duration to total_execution_time and recomputes the
   average as total / count. *)
C7_EveryCallIsTimed ==
    [][\A f \in FrameIds :
          (/\ frames[f].pc \in {"analyze", "optimize"}
           /\ frames'[f].pc = "done"
           /\ frames'[f].how \in {"returned", "fault"})
          => LET u == units[frames[f].name]
                 v == units'[frames[f].name]
             IN  /\ v.total_execution_time
                      = u.total_execution_time + (now - frames[f].start)
                 /\ v.avg_execution_time.num * v.execution_count
                      = v.total_execution_time * v.avg_execution_time.den]_vars

(* C8: a call is never in flight beyond its deadline and never returns
   after it; a call that returns by deadline expiry returns, at the
   deadline, a failed result "timed out" and leaves the unit as it is; any
   other call returns the unit's own result. *)
C8_ReturnsAtDeadline ==
    /\ [](\A f \in FrameIds :
            InFlight(frames[f]) => now - frames[f].entered <= AgentTimeout)
    /\ [][\A f \in FrameIds :
            (InFlight(frames[f]) /\ frames'[f].pc = "done")
            => /\ now' - frames[f].entered <= AgentTimeout
               /\ IF frames'[f].res.error = "timed_out"
                  THEN /\ now' - frames[f].entered = AgentTimeout
                       /\ ~frames'[f].res.success
                       /\ frames'[f].how = "deadline"
                       /\ units'[frames[f].name] = units[frames[f].name]
                  ELSE frames'[f].how \in {"returned", "fault", "disabled"}]_vars

(* C19: execute_agent on a name that is not registered returns a failed
   "not found" result, and on a registered but disabled unit a failed
   "disabled" result; in both cases the unit's code is not run and no
   unit's counters, status or timing statistics change. *)
C19_NotFoundAndDisabledFailFast ==
    [][\A d \in DirectSlots, n \in NameArgs, c \in CtxInputs :
          (ExecuteAgentBegin(d, n, c) /\ (n \notin agents \/ ~units[n].enabled))
          => LET fr == frames'[<<"direct", d>>]
             IN  /\ fr.pc = "done" /\ fr.how = "entry"
                 /\ ~fr.res.success
                 /\ fr.res.error = IF n \notin agents THEN "not_found"
                                   ELSE "disabled"
                 /\ units' = units]_vars

C19_Witness ==
    \E d \in DirectSlots :
       LET fr == frames[<<"direct", d>>]
       IN  /\ fr.pc = "done"
           /\ fr.res.error = "disabled"
           /\ fr.name \in agents
           /\ ~units[fr.name].enabled
           /\ units[fr.name].execution_count = 1
           /\ units[fr.name].error_count = 0

(* C20: an execute call that ends by a fault of analyze or optimize returns
   a failed result, adds exactly one to error_count and leaves the status
   Error; an execute call that completes without fault leaves the status
   Idle and error_count as it was. *)
C20_FaultCountedThenRecovered ==
    [][\A f \in FrameIds :
          (InFlight(frames[f]) /\ frames'[f].pc = "done") =>
             LET u == units[frames[f].name]
                 v == units'[frames[f].name]
             IN  /\ frames'[f].how = "fault" =>
                       /\ ~frames'[f].res.success
                       /\ frames'[f].res.error = "fault"
                       /\ v.error_count = u.error_count + 1
                       /\ v.status = "error"
                 /\ frames'[f].how = "returned" =>
                       /\ v.error_count = u.error_count
                       /\ v.status = "idle"]_vars

C20_Witness ==
    \E f \in FrameIds :
       /\ frames[f].pc = "done"
       /\ frames[f].how = "returned"
       /\ units[frames[f].name].status = "idle"
       /\ units[frames[f].name].error_count = 1
       /\ units[frames[f].name].execution_count = 2
       /\ units[frames[f].name].enabled

(* C30: for an enabled unit whose analyze and optimize both return without
   fault, execute runs analyze and then optimize, once each and never
   overlapping, and returns success = analyze.success AND optimize.success,
   recommendations and actions being analyze's followed by optimize's, and
   data holding both under the keys analysis and optimization. *)
C30_ExecuteCombinesBothResults ==
    [][\A f \in FrameIds :
         /\ (frames'[f].pc = "analyze" /\ frames[f].pc # "analyze") =>
               frames[f].pc = "spawned"
         /\ (frames'[f].pc = "optimize" /\ frames[f].pc # "optimize") =>
               frames[f].pc = "analyze"
         /\ \A ok \in BOOLEAN :
               OptimizeReturn(f, ok) =>
                  LET a == AnalysisResult(frames[f].aok)
                      o == OptimizationResult(ok)
                      r == frames'[f].res
                  IN  /\ frames'[f].how = "returned"
                      /\ r.success = (a.success /\ o.success)
                      /\ r.recommendations = a.recommendations \o o.recommendations
                      /\ r.actions = a.actions \o o.actions
                      /\ r.data = << <<"analysis", a.data>>,
                                     <<"optimization", o.data>> >>]_vars

(* C33: a unit's status is Running only while one of its executions is in
   flight: once every execute call on the unit has returned, a return by
   deadline expiry included, its status is Idle, Error or Disabled. *)
C33_RunningOnlyWhileInFlight ==
    \A n \in Names :
       Quiescent(n) => units[n].status \in {"idle", "error", "disabled"}

(* C34: for every unit error_count <= execution_count in every reachable
   state, under any interleaving of executions, faults and resets, a reset
   during an execution of the unit included. *)
C34_ErrorsAtMostExecutions ==
    \A n \in Names : units[n].error_count <= units[n].execution_count

(* C35: in every reachable state a unit's status is Disabled if and only if
   its enabled flag is false, under any interleaving of enable, disable and
   executions. *)
C35_DisabledIffNotEnabled ==
    \A n \in Names : (units[n].status = "disabled") <=> ~units[n].enabled

----------------------------------------------------------------------------
(* Claims about the registry's administrative operations, under
   RegistrySpec *)

(* C21, as stated: healthy is the number of registered units whose status
   is not Error. *)
C21_HealthyIsNotError ==
    /\ GetOverallHealth.total_agents = Cardinality(agents)
    /\ GetOverallHealth.enabled_agents
          = Cardinality({n \in agents : units[n].enabled})
    /\ GetOverallHealth.healthy_agents
          = Cardinality({n \in agents : units[n].status # "error"})

(* C21, amended: total is the number of registered units, enabled the
   number of those with enabled = true, and healthy the number of enabled
   units whose status is not Error: a disabled unit is never counted
   healthy. *)
C21_HealthyIsEnabledAndNotError ==
    /\ GetOverallHealth.total_agents = Cardinality(agents)
    /\ GetOverallHealth.enabled_agents
          = Cardinality({n \in agents : units[n].enabled})
    /\ GetOverallHealth.healthy_agents
          = Cardinality(agents)
              - Cardinality({n \in agents : ~units[n].enabled})
              - Cardinality({n \in agents :
                               units[n].enabled /\ units[n].status = "error"})

C21_Witness ==
    /\ \E n \in agents : units[n].enabled /\ units[n].status = "error"
    /\ GetOverallHealth.healthy_agents = GetOverallHealth.enabled_agents - 1
    /\ GetOverallHealth.total_agents = Cardinality(Names)

(* C22: register_agent on a name already registered returns false and
   leaves the table and the registered unit as they are; on a new name it
   returns true and adds exactly that name; unregister_agent on an absent
   name returns false and changes nothing; on a registered name it returns
   true and removes exactly that name, touching no unit. *)
C22_RegisterUnregister ==
    [][\A n \in AdminNames :
          /\ RegisterAgent(n) =>
                IF n \in agents
                THEN ~RegisterResult(n) /\ UNCHANGED <<agents, units>>
                ELSE /\ RegisterResult(n)
                     /\ agents' = agents \cup {n}
                     /\ units'[n] = NewAgent
                     /\ \A m \in Names \ {n} : units'[m] = units[m]
          /\ UnregisterAgent(n) =>
                IF n \in agents
                THEN /\ UnregisterResult(n)
                     /\ agents' = agents \ {n}
                     /\ n \notin agents'
                     /\ units' = units
                ELSE ~UnregisterResult(n) /\ UNCHANGED <<agents, units>>]_vars

C22_Witness ==
    \E n \in Names :
       /\ n \notin agents
       /\ units[n].execution_count > 0
       /\ Cardinality(agents) = Cardinality(Names) - 1

(* C23: disable_agent leaves the unit with enabled = false and status
   Disabled, enable_agent with enabled = true and status Idle, both touching
   nothing else and returning true; applied to a unit already in that state
   they change nothing (idempotence); on an unknown name the operations
   return false and change nothing. *)
C23_EnableDisableIdempotent ==
    [][\A n \in NameArgs :
          /\ DisableAgent(n) =>
                /\ AdminResult(n)
                /\ units' = [units EXCEPT ![n] =
                      [units[n] EXCEPT !.enabled = FALSE, !.status = "disabled"]]
                /\ (~units[n].enabled /\ units[n].status = "disabled")
                      => UNCHANGED vars
          /\ EnableAgent(n) =>
                /\ AdminResult(n)
                /\ units' = [units EXCEPT ![n] =
                      [units[n] EXCEPT !.enabled = TRUE, !.status = "idle"]]
                /\ (units[n].enabled /\ units[n].status = "idle")
                      => UNCHANGED vars
          /\ AdminUnknown(n) => (~AdminResult(n) /\ UNCHANGED vars)]_vars

C23_Witness ==
    \E n \in agents :
       /\ ~units[n].enabled
       /\ units[n].status = "disabled"
       /\ units[n].execution_count > 0
       /\ units[n].error_count > 0

(* C24: reset_agent sets execution_count, error_count,
   total_execution_time and avg_execution_time to 0 and clears
   last_execution, and leaves enabled and status as they are. *)
C24_ResetZeroesCounters ==
    [][\A n \in AdminNames :
          ResetAgent(n) =>
             /\ units'[n].execution_count = 0
             /\ units'[n].error_count = 0
             /\ units'[n].total_execution_time = 0
             /\ units'[n].avg_execution_time.num = 0
             /\ units'[n].last_execution = NoTime
             /\ units'[n].enabled = units[n].enabled
             /\ units'[n].status = units[n].status
             /\ \A m \in Names \ {n} : units'[m] = units[m]]_vars

C24_Witness ==
    \E n \in agents :
       /\ units[n].execution_count = 0
       /\ units[n].total_execution_time = 0
       /\ units[n].last_execution = NoTime
       /\ units[n].status = "error"

----------------------------------------------------------------------------
(* Claims about one call of execute_all_agents, under FanoutSpec *)

Sub(n) == frames[<<"all", n>>]

(* C4: the map that execute_all_agents returns has exactly one result per
   unit that was enabled when the call started, and each entry is the
   result of that unit's own execution: a success only if that unit's
   analyze and optimize returned, a fault only if that unit faulted. *)
C4_OneResultPerEnabledUnit ==
    ea.pc = "done" =>
       /\ DOMAIN ea.results = ea.snapshot
       /\ \A n \in ea.snapshot :
             /\ ea.results[n] = Sub(n).res
             /\ ea.results[n].success => (Sub(n).how = "returned" /\ Sub(n).aok)
             /\ Sub(n).how = "fault" <=> ea.results[n].error = "fault"

C4_Witness ==
    /\ ea.pc = "done"
    /\ ea.snapshot = Names
    /\ Cardinality({n \in Names : ea.results[n].error = "fault"}) = 1
    /\ Cardinality({n \in Names : ea.results[n].success}) = Cardinality(Names) - 1

SubsInFlight == {n \in Names : InFlight(Sub(n))}

(* C9: during the call at most MaxConcurrentAgents executions are in
   flight, the permits out are those of the executions in flight, and all
   are back when the call returns. *)
C9_BoundedConcurrency ==
    /\ Cardinality(SubsInFlight) <= MaxConcurrentAgents
    /\ ea.sem = MaxConcurrentAgents - Cardinality(SubsInFlight)
    /\ ea.pc = "done" => ea.sem = MaxConcurrentAgents

C9_Witness ==
    /\ ea.sem = 0
    /\ \E n \in Names : Sub(n).pc = "wait"
    /\ \E n \in Names : Sub(n).pc = "analyze"

----------------------------------------------------------------------------
(* Claims about the return of execute_all_agents, under FanoutLiveSpec *)

(* C39: every execute_all_agents call eventually returns: each enabled unit
   eventually obtains a permit, and since every execution ends by result,
   fault or deadline expiry no permit is held for ever, also with more
   enabled units than permits and units that never finish on their own. *)
C39_ExecuteAllReturns ==
    /\ (ea.pc = "running") ~> (ea.pc = "done")
    /\ \A n \in Names : (Sub(n).pc = "wait") ~> (Sub(n).pc # "wait")
    /\ (ea.sem < MaxConcurrentAgents) ~> (ea.sem = MaxConcurrentAgents)

(* the call returned although none of the three units ever finished *)
C39_Witness ==
    /\ ea.pc = "done"
    /\ ea.snapshot = Names
    /\ \A n \in Names : ea.results[n].error = "timed_out"

----------------------------------------------------------------------------
(* Claims about signed interval specs, under SignedSpec *)

(* C29: for every job, next_run after a successful completion is greater
   than or equal to its next_run before that execution and to its value
   after every earlier successful completion, faults and back-offs in
   between included. *)
C29_NextRunMonotone ==
    [][\A w \in Workers :
         ExecuteTaskSuccess(w) =>
            LET o == objs[workers[w].task]
                after == objs'[workers[w].task]
            IN  /\ after.next_run >= o.next_run
                /\ o.last_run # NoTime =>
                      after.next_run >= ParseSchedule(o.schedule, o.last_run).value]_vars

----------------------------------------------------------------------------
(* Claims about concurrent calls, under ConcurrentSpec *)

(* the executions of unit n that are between the start of BaseAgent.execute
   and its return *)
Executing(n) ==
    {f \in FrameIds : frames[f].pc \in {"analyze", "optimize"} /\ frames[f].name = n}

(* C28: at most one execution of a given unit is in flight at any time, so
   that no two overlapping executions update its status and counters. *)
C28_OneExecutionInFlightPerUnit ==
    \A n \in Names : Cardinality(Executing(n)) <= 1

----------------------------------------------------------------------------
(* Claims about execute_all_agents together with direct calls, under
   MixedSpec *)

(* the calls of execute_agent, of either origin, that are past the entry
   tests and have not returned *)
AllInFlight == {f \in FrameIds : InFlight(frames[f])}

(* C38: the cap max_concurrent_agents bounds unit executions globally: with
   an execute_all_agents call and direct execute_agent calls running
   together, the executions in flight never exceed the cap. *)
C38_GlobalCap == Cardinality(AllInFlight) <= MaxConcurrentAgents

====
